---------------------------- MODULE Spec2Model ----------------------------
(***************************************************************************)
(* Model of the accounts provider of the break client                      *)
(* (client/src/providers/accounts.tsx): the status state machine, the      *)
(* creation lock, the generation-counted cost calculation, and the batched *)
(* account creation with bounded retry.                                    *)
(*                                                                         *)
(* Execution model.  JavaScript runs one task at a time and a function     *)
(* runs to completion up to its next await of a network call or timer.     *)
(* Every action below is therefore one such run-to-completion segment: a   *)
(* call of create/close/deactivate up to its first network await, or the   *)
(* continuation that runs when a network call or the sleep timer settles.  *)
(* React state written by a segment is visible to the next segment (the    *)
(* callbacks are re-created on every render from the current state).       *)
(***************************************************************************)
EXTENDS Integers, Sequences, FiniteSets, TLC

(***************************************************************************)
(* Bounds of the model.                                                    *)
(***************************************************************************)
\* The configuration switches between parallelization 1 and MaxPar (two batches).
MaxPar == 6
\* Parallelization values a single create run is checked for in SpecBatch.
MaxBatchPar == 12
\* Cap on calculationCounter (number of runs of the effect).
MaxGen == 2
\* Concurrent callers of create()/close().
NumCallers == 2

(***************************************************************************)
(* Program constants.                                                      *)
(***************************************************************************)
BATCH_SIZE == 5
TX_PER_BYTE == 8
MaxRetries == 3

Callers == 1..NumCallers
ParValues == {1, MaxPar}
\* One connection object: useConnection() yields it or undefined.
Connections == {1}

VARIABLES
    status,              \* React state: Status
    costs,               \* React state: AccountCosts | undefined
    accounts,            \* React state: Config | undefined
    connection,          \* useConnection(): 0 is undefined
    wallet,              \* useWalletState().wallet present
    breakProgramId,      \* useServerConfig()?.programId present
    parallelization,     \* useClientConfig() parallelization
    creationLock,        \* ref: creationLock.current
    calculationCounter,  \* ref: calculationCounter.current
    calcs,               \* cost calculations in flight (async closures of the effect)
    run,                 \* per caller: the create/close run in flight, if any
    lastCall             \* how the most recently ended create()/close() call ended

vars == <<status, costs, accounts, connection, wallet, breakProgramId,
          parallelization, creationLock, calculationCounter, calcs, run, lastCall>>

Min(a, b) == IF a < b THEN a ELSE b

\* Math.ceil(a / b) for positive integers.
CeilDiv(a, b) == (a + b - 1) \div b

\* Math.ceil(1000 / parallelization / TX_PER_BYTE)
calculateProgrampace(p) == CeilDiv(1000, p * TX_PER_BYTE)

calculateTransactionsPerAccount(space) == TX_PER_BYTE * space

\* Array.prototype.slice(from, to) on a sequence (0-based, end exclusive, clamped).
Slice(s, from, to) == SubSeq(s, Min(from, Len(s)) + 1, Min(to, Len(s)))

\* getFeePayers(n): the n fee payer keypairs, identified by their index.
getFeePayers(n) == [i \in 1..n |-> i]

\* Array(n).fill(0).map(() => new Keypair()): n fresh keypairs, identified by index.
newProgramKeypairs(n) == [i \in 1..n |-> i]

NoCosts == [defined |-> FALSE, parallelization |-> 0]
NoAccounts == [defined |-> FALSE, program |-> <<>>, feePayerKeypairs |-> <<>>,
               accountCapacity |-> 0]

\* calculateCosts(connection, parallelization): the costs are determined by the
\* arguments of the call and the ledger's fee schedule; the model keeps the argument.
calculateCosts(p) == [defined |-> TRUE, parallelization |-> p]

NoRun == [op |-> "none", phase |-> "none", parallelization |-> 0, costs |-> NoCosts,
          accountIndex |-> 0, retries |-> 0, sent |-> 0,
          feePayers |-> <<>>, program |-> <<>>, tx |-> <<>>, confirmed |-> <<>>]

\* What the caller of create()/close() and the console see of a call that ended:
\* ret is "returned" or "threw"; why is "none" (nothing logged or thrown),
\* "precondition" (one of the errors thrown before the lock is read), "locked" and
\* "status" (the two console.warn of create, the one of close), or "fatal" (an
\* error raised inside the run: logged by create, thrown on by close).
NoCall == [op |-> "none", ret |-> "none", why |-> "none"]
Ended(op, ret, why) == [op |-> op, ret |-> ret, why |-> why]

InFlight == {c \in Callers : run[c].op # "none"}


(***************************************************************************)
(* The effect of lines 59-89, which React runs after mount and whenever    *)
(* connection or parallelization changed.                                  *)
(***************************************************************************)
NewCalc(saved, p) == [savedCounter |-> saved, parallelization |-> p, state |-> "calculating"]

\* Mutant: the effect does not clear the accounts.
Effect_KeepAccounts(conn, p) ==
    /\ calculationCounter' = calculationCounter + 1
    /\ status' = "initializing"
    /\ accounts' = accounts
    /\ calcs' = IF conn = 0 THEN calcs
                ELSE calcs \cup {NewCalc(calculationCounter + 1, p)}

Effect(conn, p) ==
    /\ calculationCounter' = calculationCounter + 1
    /\ status' = "initializing"
    /\ accounts' = NoAccounts
    /\ calcs' = IF conn = 0 THEN calcs
                ELSE calcs \cup {NewCalc(calculationCounter + 1, p)}

\* useClientConfig() yields another parallelization: re-render, then the effect.
ChangeParallelization(p) ==
    /\ calculationCounter < MaxGen
    /\ p # parallelization
    /\ parallelization' = p
    /\ Effect(connection, p)
    /\ UNCHANGED <<costs, connection, wallet, breakProgramId, creationLock, run, lastCall>>

\* useConnection() yields another connection (or none): re-render, then the effect.
ChangeConnection(conn) ==
    /\ calculationCounter < MaxGen
    /\ conn # connection
    /\ connection' = conn
    /\ Effect(conn, parallelization)
    /\ UNCHANGED <<costs, wallet, breakProgramId, parallelization, creationLock, run, lastCall>>

\* useWalletState().wallet appears or disappears.
ChangeWallet ==
    /\ wallet' = ~wallet
    /\ UNCHANGED <<status, costs, accounts, connection, breakProgramId, parallelization,
                   creationLock, calculationCounter, calcs, run, lastCall>>

\* useServerConfig()?.programId appears or disappears.
ChangeProgramId ==
    /\ breakProgramId' = ~breakProgramId
    /\ UNCHANGED <<status, costs, accounts, connection, wallet, parallelization,
                   creationLock, calculationCounter, calcs, run, lastCall>>

(***************************************************************************)
(* The cost calculation loop (lines 65-88).  The three network calls of    *)
(* calculateCosts read nothing but the call's arguments, so they are one   *)
(* await here: it settles with the costs or with an error.                 *)
(***************************************************************************)
\* Mutant: the result is stored without comparing the counters.
IsCurrent_NoCheck(k) == TRUE

\* line 72: calculationCounter.current === savedCounter
IsCurrent(k) == calculationCounter = k.savedCounter

\* Mutant: the status update is not functional, it always stores inactive.
StatusAfterCosts_Always(st) == "inactive"

\* lines 74-79: the functional status update
StatusAfterCosts(st) == IF st = "initializing" THEN "inactive" ELSE st

CalcSucceed(k) ==
    /\ k \in calcs
    /\ k.state = "calculating"
    /\ IF IsCurrent(k)
       THEN /\ costs' = calculateCosts(k.parallelization)
            /\ status' = StatusAfterCosts(status)
       ELSE UNCHANGED <<costs, status>>
    /\ calcs' = calcs \ {k}
    /\ UNCHANGED <<accounts, connection, wallet, breakProgramId, parallelization,
                   creationLock, calculationCounter, run, lastCall>>

\* lines 82-86: the error is logged, then sleep(2000)
CalcFail(k) ==
    /\ k \in calcs
    /\ k.state = "calculating"
    /\ calcs' = (calcs \ {k}) \cup {[k EXCEPT !.state = "sleeping"]}
    /\ UNCHANGED <<status, costs, accounts, connection, wallet, breakProgramId,
                   parallelization, creationLock, calculationCounter, run, lastCall>>

\* the sleep is over: the loop calls calculateCosts again
CalcWake(k) ==
    /\ k \in calcs
    /\ k.state = "sleeping"
    /\ calcs' = (calcs \ {k}) \cup {[k EXCEPT !.state = "calculating"]}
    /\ UNCHANGED <<status, costs, accounts, connection, wallet, breakProgramId,
                   parallelization, creationLock, calculationCounter, run, lastCall>>

\* Mutant: deactivate sets the status without looking at the lock.
deactivate_NoLockCheck ==
    /\ status' = "inactive"
    /\ UNCHANGED <<costs, accounts, connection, wallet, breakProgramId, parallelization,
                   creationLock, calculationCounter, calcs, run, lastCall>>

(***************************************************************************)
(* deactivate (lines 91-93)                                                *)
(***************************************************************************)
deactivate ==
    /\ status' = IF ~creationLock THEN "inactive" ELSE status
    /\ UNCHANGED <<costs, accounts, connection, wallet, breakProgramId, parallelization,
                   creationLock, calculationCounter, calcs, run, lastCall>>

(***************************************************************************)
(* close (lines 95-113) and _close (lines 195-219)                         *)
(***************************************************************************)
\* lines 96-99: the checks that throw
ClosePreconditions == connection # 0 /\ wallet

\* A call that ends without starting a run changes nothing but what the caller sees.
CallEnds(op, ret, why) ==
    /\ lastCall' = Ended(op, ret, why)
    /\ UNCHANGED <<status, costs, accounts, connection, wallet, breakProgramId,
                   parallelization, creationLock, calculationCounter, calcs, run>>

\* lines 96-99: throw new Error(...)
CloseThrows(c) ==
    /\ run[c].op = "none"
    /\ ~ClosePreconditions
    /\ CallEnds("close", "threw", "precondition")

\* lines 100-102: "Account closing is locked"
CloseLocked(c) ==
    /\ run[c].op = "none"
    /\ ClosePreconditions
    /\ creationLock
    /\ CallEnds("close", "returned", "locked")

\* line 103 is false: the callback falls through and returns
CloseIgnored(c) ==
    /\ run[c].op = "none"
    /\ ClosePreconditions
    /\ ~creationLock
    /\ status # "inactive"
    /\ CallEnds("close", "returned", "none")

\* lines 103-107 and 200-206: lock, status, then _close awaits the balances
CloseStart(c) ==
    /\ run[c].op = "none"
    /\ ClosePreconditions
    /\ ~creationLock
    /\ status = "inactive"
    /\ creationLock' = TRUE
    /\ status' = "closing"
    /\ run' = [run EXCEPT ![c] = [NoRun EXCEPT !.op = "close", !.phase = "balances",
                                     !.parallelization = parallelization,
                                     !.feePayers = getFeePayers(parallelization)]]
    /\ UNCHANGED <<costs, accounts, connection, wallet, breakProgramId, parallelization,
                   calculationCounter, calcs, lastCall>>

\* lines 207-218: the balances arrived; one transaction with a transfer per fee payer
CloseBalancesOk(c) ==
    /\ run[c].op = "close"
    /\ run[c].phase = "balances"
    /\ run' = [run EXCEPT ![c].phase = "send", ![c].sent = 1,
                          ![c].tx = [i \in 1..Len(run[c].feePayers) |->
                                        [from |-> run[c].feePayers[i]]]]
    /\ UNCHANGED <<status, costs, accounts, connection, wallet, breakProgramId,
                   parallelization, creationLock, calculationCounter, calcs, lastCall>>

\* Mutant: the lock is released after the await instead of in a finally block.
CloseFinally_NoFinally(c, ret, why) ==
    /\ status' = "inactive"
    /\ creationLock' = (why = "fatal")
    /\ run' = [run EXCEPT ![c] = NoRun]
    /\ lastCall' = Ended("close", ret, why)
    /\ UNCHANGED <<costs, accounts, connection, wallet, breakProgramId, parallelization,
                   calculationCounter, calcs>>

\* Mutant: the finally block of close also clears the accounts.
CloseFinally_ClearsAccounts(c, ret, why) ==
    /\ status' = "inactive"
    /\ creationLock' = FALSE
    /\ accounts' = NoAccounts
    /\ run' = [run EXCEPT ![c] = NoRun]
    /\ lastCall' = Ended("close", ret, why)
    /\ UNCHANGED <<costs, connection, wallet, breakProgramId, parallelization,
                   calculationCounter, calcs>>

\* Mutant: the finally block of close releases the lock and leaves the status.
CloseFinally_KeepStatus(c, ret, why) ==
    /\ status' = status
    /\ creationLock' = FALSE
    /\ run' = [run EXCEPT ![c] = NoRun]
    /\ lastCall' = Ended("close", ret, why)
    /\ UNCHANGED <<costs, accounts, connection, wallet, breakProgramId, parallelization,
                   calculationCounter, calcs>>

\* lines 108-111: the finally block of close
CloseFinally(c, ret, why) ==
    /\ status' = "inactive"
    /\ creationLock' = FALSE
    /\ run' = [run EXCEPT ![c] = NoRun]
    /\ lastCall' = Ended("close", ret, why)
    /\ UNCHANGED <<costs, accounts, connection, wallet, breakProgramId, parallelization,
                   calculationCounter, calcs>>

\* sendAndConfirmTransaction of line 218 resolved
CloseSendOk(c) ==
    /\ run[c].op = "close"
    /\ run[c].phase = "send"
    /\ CloseFinally(c, "returned", "none")

\* Mutant: close catches the error of _close.
CloseFail_Caught(c) ==
    /\ run[c].op = "close"
    /\ CloseFinally(c, "returned", "fatal")

\* getBalance or sendAndConfirmTransaction rejected: no catch, the error leaves close
CloseFail(c) ==
    /\ run[c].op = "close"
    /\ CloseFinally(c, "threw", "fatal")

(***************************************************************************)
(* _createAccountBatch (lines 242-297) and _create (lines 299-335)         *)
(***************************************************************************)
\* lines 256-274: per pair, a createAccount and a transfer instruction
BatchTx(newFeePayers, newProgram) ==
    [i \in 1..Len(newProgram) |-> [program |-> newProgram[i], feePayer |-> newFeePayers[i]]]

\* Mutant: the slices end one element early.
EnterBatch_ShortSlice(r, idx) ==
    IF idx < r.parallelization
    THEN LET newFeePayers == Slice(r.feePayers, idx, idx + BATCH_SIZE - 1)
             newProgram == Slice(r.program, idx, idx + BATCH_SIZE - 1)
         IN  IF Len(newProgram) # Len(newFeePayers)
             THEN [kind |-> "throw", run |-> r]
             ELSE [kind |-> "await",
                   run |-> [r EXCEPT !.accountIndex = idx, !.retries = MaxRetries,
                                     !.sent = 1,
                                     !.tx = BatchTx(newFeePayers, newProgram)]]
    ELSE [kind |-> "return", run |-> r]

\* Mutant: _createAccountBatch does not compare the lengths of its lists.
EnterBatch_NoLengthCheck(r, idx) ==
    IF idx < r.parallelization
    THEN LET newFeePayers == Slice(r.feePayers, idx, idx + BATCH_SIZE)
             newProgram == Slice(r.program, idx, idx + BATCH_SIZE)
         IN  [kind |-> "await",
              run |-> [r EXCEPT !.accountIndex = idx, !.retries = MaxRetries,
                                !.sent = 1,
                                !.tx = [i \in 1..Len(newProgram) |->
                                           [program |-> newProgram[i],
                                            feePayer |-> IF i <= Len(newFeePayers)
                                                         THEN newFeePayers[i] ELSE 0]]]]
    ELSE [kind |-> "return", run |-> r]

\* The loop of _create from its test (line 315) to the first submission of the
\* batch at accountIndex idx (line 279), or to the return (lines 329-334), or to
\* the internal error of line 253.
EnterBatch(r, idx) ==
    IF idx < r.parallelization
    THEN LET newFeePayers == Slice(r.feePayers, idx, idx + BATCH_SIZE)
             newProgram == Slice(r.program, idx, idx + BATCH_SIZE)
         IN  IF Len(newProgram) # Len(newFeePayers)
             THEN [kind |-> "throw", run |-> r]
             ELSE [kind |-> "await",
                   run |-> [r EXCEPT !.accountIndex = idx, !.retries = MaxRetries,
                                     !.sent = 1,
                                     !.tx = BatchTx(newFeePayers, newProgram)]]
    ELSE [kind |-> "return", run |-> r]

\* lines 329-334: the Config _create returns
NewAccounts(r) ==
    [defined |-> TRUE,
     program |-> r.program,
     feePayerKeypairs |-> r.feePayers,
     accountCapacity |->
         calculateTransactionsPerAccount(calculateProgrampace(r.parallelization))]

(***************************************************************************)
(* create (lines 115-158)                                                  *)
(***************************************************************************)
\* Mutant: create does not test that the costs are there.
CreatePreconditions_NoCosts == connection # 0 /\ breakProgramId /\ wallet

\* lines 116-123: the checks that throw
CreatePreconditions == connection # 0 /\ breakProgramId /\ wallet /\ costs.defined

\* Mutant: create does not read the lock.
CreateGateClear_NoCheck == TRUE

\* line 124
CreateGateClear == ~creationLock

\* Mutant: create does not test the status.
CreateStatusOk_NoCheck == TRUE

\* line 127
CreateStatusOk == status = "inactive"

\* Mutant: the catch block does not clear the accounts.
CreateContinues_KeepAccounts(c, res, st, lock) ==
    /\ run' = [run EXCEPT ![c] = IF res.kind = "await" THEN res.run ELSE NoRun]
    /\ status' = CASE res.kind = "await" -> st
                   [] res.kind = "return" -> "active"
                   [] OTHER -> "inactive"
    /\ accounts' = IF res.kind = "return" THEN NewAccounts(res.run) ELSE accounts
    /\ creationLock' = IF res.kind = "await" THEN lock ELSE FALSE
    /\ lastCall' = CASE res.kind = "await" -> lastCall
                     [] res.kind = "return" -> Ended("create", "returned", "none")
                     [] OTHER -> Ended("create", "returned", "fatal")

\* What create does once _create has reached an await, returned or thrown
\* (lines 138-146); st and lock are the status and lock while the run goes on.
CreateContinues(c, res, st, lock) ==
    /\ run' = [run EXCEPT ![c] = IF res.kind = "await" THEN res.run ELSE NoRun]
    /\ status' = CASE res.kind = "await" -> st
                   [] res.kind = "return" -> "active"
                   [] OTHER -> "inactive"
    /\ accounts' = CASE res.kind = "await" -> accounts
                     [] res.kind = "return" -> NewAccounts(res.run)
                     [] OTHER -> NoAccounts
    /\ creationLock' = IF res.kind = "await" THEN lock ELSE FALSE
    /\ lastCall' = CASE res.kind = "await" -> lastCall
                     [] res.kind = "return" -> Ended("create", "returned", "none")
                     [] OTHER -> Ended("create", "returned", "fatal")

CreateThrows(c) ==
    /\ run[c].op = "none"
    /\ ~CreatePreconditions
    /\ CallEnds("create", "threw", "precondition")

\* Mutant: a locked create throws instead of warning.
CreateLocked_Throws(c) ==
    /\ run[c].op = "none"
    /\ CreatePreconditions
    /\ ~CreateGateClear
    /\ CallEnds("create", "threw", "locked")

\* lines 124-126: "Account creation is locked"
CreateLocked(c) ==
    /\ run[c].op = "none"
    /\ CreatePreconditions
    /\ ~CreateGateClear
    /\ CallEnds("create", "returned", "locked")

\* lines 147-149: "Account creation requires inactive status"
CreateIgnored(c) ==
    /\ run[c].op = "none"
    /\ CreatePreconditions
    /\ CreateGateClear
    /\ ~CreateStatusOk
    /\ CallEnds("create", "returned", "status")

\* lines 127-137 and 306-324: lock, status, then _create up to its first
\* submission; feePayers is what getFeePayers(parallelization) returned.
CreateStartWith(c, feePayers) ==
    /\ run[c].op = "none"
    /\ CreatePreconditions
    /\ CreateGateClear
    /\ CreateStatusOk
    /\ LET r == [NoRun EXCEPT !.op = "create", !.phase = "send",
                              !.parallelization = parallelization,
                              !.costs = costs,
                              !.feePayers = feePayers,
                              !.program = newProgramKeypairs(parallelization)]
       IN  CreateContinues(c, EnterBatch(r, 0), "creating", TRUE)
    /\ UNCHANGED <<costs, connection, wallet, breakProgramId, parallelization,
                   calculationCounter, calcs>>

CreateStart(c) == CreateStartWith(c, getFeePayers(parallelization))

\* line 279 resolved: break, the batch is done, accountIndex += BATCH_SIZE
SubmitOk(c) ==
    /\ run[c].op = "create"
    /\ LET r == [run[c] EXCEPT !.confirmed = Append(@, run[c].tx)]
       IN  CreateContinues(c, EnterBatch(r, r.accountIndex + BATCH_SIZE), status, creationLock)
    /\ UNCHANGED <<costs, connection, wallet, breakProgramId, parallelization,
                   calculationCounter, calcs>>

\* Mutant: a batch that used up its retries is skipped, the loop goes on.
AfterFailedSubmit_SkipBatch(r) ==
    LET retries == r.retries - 1
    IN  IF retries = 0
        THEN EnterBatch(r, r.accountIndex + BATCH_SIZE)
        ELSE [kind |-> "await", run |-> [r EXCEPT !.retries = retries, !.sent = @ + 1]]

\* Mutant: the retries are tested before they are decremented.
AfterFailedSubmit_OffByOne(r) ==
    IF r.retries = 0
    THEN [kind |-> "throw", run |-> r]
    ELSE [kind |-> "await", run |-> [r EXCEPT !.retries = @ - 1, !.sent = @ + 1]]

\* lines 286-295: the catch of the retry loop
AfterFailedSubmit(r) ==
    LET retries == r.retries - 1
    IN  IF retries = 0
        THEN [kind |-> "throw", run |-> r]
        ELSE [kind |-> "await", run |-> [r EXCEPT !.retries = retries, !.sent = @ + 1]]

\* line 279 rejected
SubmitFail(c) ==
    /\ run[c].op = "create"
    /\ CreateContinues(c, AfterFailedSubmit(run[c]), status, creationLock)
    /\ UNCHANGED <<costs, connection, wallet, breakProgramId, parallelization,
                   calculationCounter, calcs>>

(***************************************************************************)
(* Specifications                                                          *)
(***************************************************************************)
\* After mount: the effect has run once.
Init ==
    /\ connection \in {0} \cup Connections
    /\ wallet \in BOOLEAN
    /\ breakProgramId \in BOOLEAN
    /\ parallelization \in ParValues
    /\ status = "initializing"
    /\ costs = NoCosts
    /\ accounts = NoAccounts
    /\ creationLock = FALSE
    /\ calculationCounter = 1
    /\ calcs = IF connection = 0 THEN {} ELSE {NewCalc(1, parallelization)}
    /\ run = [c \in Callers |-> NoRun]
    /\ lastCall = NoCall

Next ==
    \/ \E p \in ParValues : ChangeParallelization(p)
    \/ \E conn \in {0} \cup Connections : ChangeConnection(conn)
    \/ ChangeWallet
    \/ ChangeProgramId
    \/ \E k \in calcs : CalcSucceed(k)
    \/ \E k \in calcs : CalcFail(k)
    \/ \E k \in calcs : CalcWake(k)
    \/ deactivate
    \/ \E c \in Callers : CloseThrows(c)
    \/ \E c \in Callers : CloseLocked(c)
    \/ \E c \in Callers : CloseIgnored(c)
    \/ \E c \in Callers : CloseStart(c)
    \/ \E c \in Callers : CloseBalancesOk(c)
    \/ \E c \in Callers : CloseSendOk(c)
    \/ \E c \in Callers : CloseFail(c)
    \/ \E c \in Callers : CreateThrows(c)
    \/ \E c \in Callers : CreateLocked(c)
    \/ \E c \in Callers : CreateIgnored(c)
    \/ \E c \in Callers : CreateStart(c)
    \/ \E c \in Callers : SubmitOk(c)
    \/ \E c \in Callers : SubmitFail(c)

Spec == Init /\ [][Next]_vars

\* One provider whose cost calculation has succeeded, for every pool size up to
\* MaxBatchPar: create runs, their batches and retries, and deactivate in between.
InitBatch ==
    /\ connection \in Connections
    /\ wallet = TRUE
    /\ breakProgramId = TRUE
    /\ parallelization \in 1..MaxBatchPar
    /\ status = "inactive"
    /\ costs = calculateCosts(parallelization)
    /\ accounts = NoAccounts
    /\ creationLock = FALSE
    /\ calculationCounter = 1
    /\ calcs = {}
    /\ run = [c \in Callers |-> NoRun]
    /\ lastCall = NoCall

NextBatch ==
    \/ \E c \in Callers : CreateStart(c)
    \/ \E c \in Callers : SubmitOk(c)
    \/ \E c \in Callers : SubmitFail(c)
    \/ deactivate

SpecBatch == InitBatch /\ [][NextBatch]_vars

\* The provider with getFeePayers left open: it may return any number of
\* keypairs, so that _createAccountBatch meets lists of different lengths.
NextInputs ==
    \/ \E p \in ParValues : ChangeParallelization(p)
    \/ \E conn \in {0} \cup Connections : ChangeConnection(conn)
    \/ ChangeWallet
    \/ ChangeProgramId
    \/ \E k \in calcs : CalcSucceed(k)
    \/ \E k \in calcs : CalcFail(k)
    \/ \E k \in calcs : CalcWake(k)
    \/ deactivate
    \/ \E c \in Callers : CloseThrows(c)
    \/ \E c \in Callers : CloseLocked(c)
    \/ \E c \in Callers : CloseIgnored(c)
    \/ \E c \in Callers : CloseStart(c)
    \/ \E c \in Callers : CloseBalancesOk(c)
    \/ \E c \in Callers : CloseSendOk(c)
    \/ \E c \in Callers : CloseFail(c)
    \/ \E c \in Callers : CreateThrows(c)
    \/ \E c \in Callers : CreateLocked(c)
    \/ \E c \in Callers : CreateIgnored(c)
    \/ \E c \in Callers, n \in 0..(MaxPar + 1) : CreateStartWith(c, getFeePayers(n))
    \/ \E c \in Callers : SubmitOk(c)
    \/ \E c \in Callers : SubmitFail(c)

SpecInputs == Init /\ [][NextInputs]_vars

\* Every cost calculation the bounds allow, by the state its loop is in.
CalcsIn(state) ==
    {[NewCalc(g, p) EXCEPT !.state = state] : g \in 1..MaxGen, p \in ParValues}

\* The progress the runtime and a recovering network give: a network
\* call in flight settles, the sleep timer fires, and a cost calculation that
\* keeps being retried is not failed for ever.
Fairness ==
    /\ \A k \in CalcsIn("sleeping") : WF_vars(CalcWake(k))
    /\ \A k \in CalcsIn("calculating") : SF_vars(CalcSucceed(k))
    /\ \A c \in Callers : WF_vars(SubmitOk(c) \/ SubmitFail(c))
    /\ \A c \in Callers : WF_vars(CloseBalancesOk(c) \/ CloseSendOk(c) \/ CloseFail(c))

\* The steps of Next with the wallet and the program id as they were at mount.
NextLive ==
    \/ \E p \in ParValues : ChangeParallelization(p)
    \/ \E conn \in {0} \cup Connections : ChangeConnection(conn)
    \/ \E k \in calcs : CalcSucceed(k)
    \/ \E k \in calcs : CalcFail(k)
    \/ \E k \in calcs : CalcWake(k)
    \/ deactivate
    \/ \E c \in Callers : CloseThrows(c)
    \/ \E c \in Callers : CloseLocked(c)
    \/ \E c \in Callers : CloseIgnored(c)
    \/ \E c \in Callers : CloseStart(c)
    \/ \E c \in Callers : CloseBalancesOk(c)
    \/ \E c \in Callers : CloseSendOk(c)
    \/ \E c \in Callers : CloseFail(c)
    \/ \E c \in Callers : CreateThrows(c)
    \/ \E c \in Callers : CreateLocked(c)
    \/ \E c \in Callers : CreateIgnored(c)
    \/ \E c \in Callers : CreateStart(c)
    \/ \E c \in Callers : SubmitOk(c)
    \/ \E c \in Callers : SubmitFail(c)

SpecLive == Init /\ [][NextLive]_vars /\ Fairness

(***************************************************************************)
(* Properties                                                              *)
(***************************************************************************)
\* The run of caller c ends in this step.
RunEnds(c) == run[c].op # "none" /\ run'[c].op = "none"

\* The run of caller c ends in this step with an error raised inside it.
RunEndsFatally(c) == RunEnds(c) /\ lastCall'.why = "fatal"

\* A create()/close() call is made in this step and ends without starting a run.
CallEndsEarly == run' = run /\ lastCall' # lastCall

\* C1: at most one create-or-close run is in flight at any time, and a run in
\* flight holds the gate, so that no other call gets past the gate check while
\* it lasts; in particular two create runs are never both provisioning.
C1_AtMostOneInFlight ==
    /\ [](Cardinality(InFlight) <= 1 /\ (InFlight # {} => creationLock))
    /\ [][ creationLock => \A c \in Callers : run[c].op = "none" => run'[c].op = "none" ]_vars

\* C1 witness: a create run is provisioning and another create() call has just
\* been turned away at the gate.
C1_Witness ==
    /\ \E c \in Callers : run[c].op = "create"
    /\ creationLock
    /\ lastCall = Ended("create", "returned", "locked")

\* C2: the step that ends a run (provisioning done, batch retries exhausted,
\* teardown done, teardown failed) leaves the gate clear; a step that starts or
\* ends no run (an early return among them) leaves the gate as it was; and the
\* gate is never set without a run in flight.
C2_GateClearedOnExit ==
    /\ [](creationLock => InFlight # {})
    /\ [][ /\ \A c \in Callers : RunEnds(c) => ~creationLock'
           /\ run' = run => creationLock' = creationLock ]_vars

\* C2 witness: a close run has failed and the gate is clear.
C2_Witness ==
    /\ lastCall = Ended("close", "threw", "fatal")
    /\ InFlight = {}
    /\ ~creationLock

\* C3: the step in which a create or close run ends with a fatal error leaves
\* status inactive and the gate clear; after a failed create run no pool config
\* is held, and a failed close run brings none in.
C3_FatalResets ==
    [][ \A c \in Callers : RunEndsFatally(c) =>
            /\ status' = "inactive"
            /\ ~creationLock'
            /\ run[c].op = "create" => ~accounts'.defined
            /\ run[c].op = "close" => accounts' = accounts ]_vars

\* C3 witness: a create run has failed after a parallelization change, which had
\* set status to initializing while the run was in flight.
C3_Witness ==
    /\ lastCall = Ended("create", "returned", "fatal")
    /\ status = "inactive"
    /\ ~creationLock
    /\ ~accounts.defined
    /\ calculationCounter > 1
    /\ calcs # {}

\* C4 as stated: a fatal error raised inside a create or close run reaches the
\* caller of that call as an error outcome.
C4_FatalSurfaced ==
    [][ \A c \in Callers : RunEndsFatally(c) => lastCall'.ret = "threw" ]_vars

\* C4 amended: a fatal error inside a close run reaches the caller of close() as
\* an error outcome; a fatal error inside a create run is caught and logged by
\* create(), which returns normally; either way the call is over, no run of that
\* caller is in flight afterwards and nothing is submitted again.
C4_FatalOutcome ==
    [][ \A c \in Callers : RunEndsFatally(c) =>
            /\ lastCall'.op = run[c].op
            /\ run[c].op = "close" => lastCall'.ret = "threw"
            /\ run[c].op = "create" => lastCall'.ret = "returned"
            /\ run'[c] = NoRun
            /\ InFlight' = {} ]_vars

\* C4 witness: a create run has ended with a fatal error.
C4_Witness ==
    /\ lastCall = Ended("create", "returned", "fatal")
    /\ InFlight = {}
    /\ status = "inactive"

\* The checks create() and close() make before they read the lock.
PreconditionsOf(op) == IF op = "create" THEN CreatePreconditions ELSE ClosePreconditions

\* What a step leaves alone when it changes none of the provider's state.
StateUnchanged == UNCHANGED <<status, creationLock, costs, accounts>>

\* C5 as stated: a create() or close() call made while the gate is held returns
\* normally and changes nothing, whether or not connection, program id, wallet
\* or cost is missing.
C5_LockedCallNeverErrors ==
    [][ (creationLock /\ CallEndsEarly) =>
            (lastCall'.ret = "returned" /\ StateUnchanged) ]_vars

\* C5 amended: a create() or close() call made while the gate is held changes
\* nothing; it returns normally (logging that it is locked) when the call's
\* preconditions hold, and throws the precondition error when one is missing,
\* because the preconditions are checked before the gate.
C5_LockedCall ==
    [][ (creationLock /\ CallEndsEarly) =>
            /\ StateUnchanged
            /\ PreconditionsOf(lastCall'.op) =>
                   lastCall' = Ended(lastCall'.op, "returned", "locked")
            /\ ~PreconditionsOf(lastCall'.op) =>
                   lastCall' = Ended(lastCall'.op, "threw", "precondition") ]_vars

\* C5 witness: a close run holds the gate and a create() call was turned away.
C5_Witness ==
    /\ creationLock
    /\ \E c \in Callers : run[c].op = "close"
    /\ lastCall = Ended("create", "returned", "locked")

\* C6: a batch is submitted at most 3 times; the fatal error of a create run is
\* raised exactly when the 3rd submission of a batch fails, and the run is over
\* then; a failed 1st or 2nd submission is followed by one more submission of the
\* same batch; a batch whose k-th submission succeeds has been submitted k times
\* and is followed by the next batch or the end of the run, not by an error.
C6_RetryBound ==
    [][ \A c \in Callers : run[c].op = "create" =>
            /\ run[c].sent \in 1..3
            /\ RunEndsFatally(c) => (run[c].sent = 3 /\ run'[c] = NoRun)
            /\ (run'[c].op = "create" /\ run'[c] # run[c]) =>
                   \/ /\ run'[c].tx = run[c].tx
                      /\ run'[c].confirmed = run[c].confirmed
                      /\ run'[c].sent = run[c].sent + 1
                   \/ /\ run'[c].confirmed = Append(run[c].confirmed, run[c].tx)
                      /\ run'[c].sent = 1
            /\ (RunEnds(c) /\ ~RunEndsFatally(c)) => status' = "active" ]_vars

\* C6 witness: the third submission of a batch is in flight.
C6_Witness ==
    \E c \in Callers : run[c].op = "create" /\ run[c].sent = 3 /\ run[c].retries = 1

\* The pair of program account i and fee payer i (i counted from 0).
\* (keypair number i + 1 of either list is the one at index i).
PairOfIndex(i) == [program |-> i + 1, feePayer |-> i + 1]

\* Batch number j (from 1) of a run holds exactly the indices in lo..hi.
BatchHolds(tx, lo, hi) ==
    /\ Len(tx) = hi - lo + 1
    /\ \A i \in 1..Len(tx) : tx[i] = PairOfIndex(lo + i - 1)

\* C7: in a create run for P accounts, the batches confirmed so far are batches
\* of exactly 5 pairs holding the indices 0..4, 5..9, ... in order, the batch
\* being submitted holds the next min(5, P - done) >= 1 indices, program account i
\* is paired with fee payer i, no more than ceil(P/5) batches are submitted, and
\* the run returns its pool exactly when batch number ceil(P/5) is confirmed.
C7_Batching ==
    /\ [](\A c \in Callers : run[c].op = "create" =>
            LET r == run[c]
                P == r.parallelization
                n == Len(r.confirmed)
            IN  /\ P >= 1
                /\ \A j \in 1..n : BatchHolds(r.confirmed[j], 5 * (j - 1), 5 * j - 1)
                /\ 5 * n < P
                /\ BatchHolds(r.tx, 5 * n, Min(5 * n + 4, P - 1))
                /\ Len(r.tx) \in 1..5
                /\ n + 1 <= (P + 4) \div 5)
    /\ [][ \A c \in Callers : (run[c].op = "create" /\ run'[c] # run[c]) =>
              LET r == run[c]
                  P == r.parallelization
                  n == Len(r.confirmed)
              IN  /\ (RunEnds(c) /\ ~RunEndsFatally(c)) =>
                         (n + 1 = (P + 4) \div 5 /\ 5 * n + Len(r.tx) = P)
                  /\ (~RunEnds(c) /\ Len(run'[c].confirmed) = n + 1) =>
                         n + 1 < (P + 4) \div 5 ]_vars

\* C7 witness: P = 12, two batches of 5 confirmed, the batch of 2 being submitted.
C7_Witness ==
    \E c \in Callers :
        /\ run[c].op = "create"
        /\ run[c].parallelization = 12
        /\ Len(run[c].confirmed) = 2
        /\ Len(run[c].confirmed[1]) = 5
        /\ Len(run[c].confirmed[2]) = 5
        /\ Len(run[c].tx) = 2

\* The cost calculation k is over in this step: it has returned.
CalcReturns(k) == \A j \in calcs' : j.savedCounter # k.savedCounter

C9_EventuallyInactive ==
    [](  (status = "initializing" /\ connection # 0)
      => <>(status = "inactive" \/ connection = 0) )

\* C10 as stated: whenever a pool config is held, it has as many program
\* accounts as fee payer keypairs, and that number is the current parallelization.
C10_PoolSize ==
    accounts.defined =>
        /\ Len(accounts.program) = Len(accounts.feePayerKeypairs)
        /\ Len(accounts.program) = parallelization

\* C11 as stated: the pool config appears only at the successful end of a create
\* run, disappears only at the successful end of a close run or at the failure
\* of a create run, and the successful end of a close run does remove it.
C11_Lifecycle ==
    [][ /\ (~accounts.defined /\ accounts'.defined) =>
               \E c \in Callers : run[c].op = "create" /\ RunEnds(c) /\ ~RunEndsFatally(c)
        /\ (accounts.defined /\ ~accounts'.defined) =>
               \E c \in Callers :
                   \/ run[c].op = "close" /\ RunEnds(c) /\ ~RunEndsFatally(c)
                   \/ run[c].op = "create" /\ RunEndsFatally(c)
        /\ \A c \in Callers :
               (run[c].op = "close" /\ RunEnds(c) /\ ~RunEndsFatally(c)) =>
                   ~accounts'.defined ]_vars

\* The effect runs in this step (connection or parallelization changed).
EffectRuns == calculationCounter' # calculationCounter

\* C11 amended: the pool config is written only by the end of a create run and
\* by the effect: it appears (or is replaced) only at the successful end of a
\* create run, and disappears only at the failure of a create run or when the
\* effect runs after a change of parallelization or connection; deactivate and
\* the end of a close run, failed or successful, leave it as it is.
C11_LifecycleOfCode ==
    [][ /\ accounts' # accounts =>
               \/ EffectRuns /\ ~accounts'.defined
               \/ \E c \in Callers : run[c].op = "create" /\ RunEnds(c)
        /\ \A c \in Callers : (run[c].op = "create" /\ RunEnds(c)) =>
               accounts'.defined = ~RunEndsFatally(c)
        /\ \A c \in Callers : (run[c].op = "close" /\ RunEnds(c)) =>
               accounts' = accounts ]_vars

\* C11 witness: a close run has failed and the pool config of the earlier
\* create run is still held.
C11_Witness ==
    /\ lastCall = Ended("close", "threw", "fatal")
    /\ accounts.defined
    /\ status = "inactive"

\* The lists _createAccountBatch is called with for the batch at index idx of run r.
BatchListsMatch(r, idx) ==
    Len(Slice(r.feePayers, idx, idx + 5)) = Len(Slice(r.program, idx, idx + 5))

\* What the claim requires to be present for a call of op.
RequiredPresent(op) ==
    /\ connection # 0
    /\ wallet
    /\ op = "create" => (breakProgramId /\ costs.defined)

\* C12: a create() call with connection, program id, wallet or cost missing,
\* and a close() call with connection or wallet missing, throws at once and
\* changes nothing (no lock, no status, no run, nothing submitted), and only
\* calls with their preconditions present start a run; a batch whose fee payer
\* and program account lists differ in length is never submitted: the run ends
\* with an error in the step that reaches it.
C12_Preconditions ==
    /\ [](\A c \in Callers : run[c].op = "create" =>
             /\ BatchListsMatch(run[c], run[c].accountIndex)
             /\ Len(run[c].tx) = Len(Slice(run[c].program, run[c].accountIndex,
                                            run[c].accountIndex + 5)))
    /\ [][ /\ (CallEndsEarly /\ ~RequiredPresent(lastCall'.op)) =>
                  /\ lastCall' = Ended(lastCall'.op, "threw", "precondition")
                  /\ UNCHANGED <<status, creationLock, costs, accounts, run, calcs>>
           /\ lastCall'.why = "precondition" =>
                  (lastCall' = lastCall \/ (CallEndsEarly /\ ~RequiredPresent(lastCall'.op)))
           /\ \A c \in Callers : (run[c].op = "none" /\ run'[c].op # "none") =>
                  RequiredPresent(run'[c].op)
           /\ \A c \in Callers :
                  ( /\ run[c].op = "create"
                    /\ run[c].accountIndex + 5 < run[c].parallelization
                    /\ ~BatchListsMatch(run[c], run[c].accountIndex + 5)
                    /\ run'[c] # run[c] ) =>
                      \/ RunEndsFatally(c)
                      \/ /\ run'[c].op = "create"
                         /\ run'[c].accountIndex = run[c].accountIndex
                         /\ run'[c].confirmed = run[c].confirmed ]_vars

\* C12 witness: create() was called in status inactive without costs (after a
\* deactivate during initializing) and threw; nothing was started.
C12_Witness ==
    /\ lastCall = Ended("create", "threw", "precondition")
    /\ status = "inactive"
    /\ ~costs.defined
    /\ connection # 0 /\ wallet /\ breakProgramId
    /\ ~creationLock
    /\ InFlight = {}

\* C13: a provisioning run starts (the caller gets a run in flight, the gate is
\* set, status becomes creating, the first batch is submitted) only in a step
\* taken with status inactive, the gate clear and connection, program id, wallet
\* and costs present; status becomes creating in no other way.
C13_CreateGuard ==
    [][ /\ \A c \in Callers : (run[c].op = "none" /\ run'[c].op = "create") =>
               /\ status = "inactive"
               /\ ~creationLock
               /\ RequiredPresent("create")
               /\ status' = "creating"
               /\ creationLock'
               /\ run'[c].sent = 1
               /\ run'[c].costs = costs
               /\ run'[c].parallelization = parallelization
        /\ (status' = "creating" /\ status # "creating") =>
               \E c \in Callers : run[c].op = "none" /\ run'[c].op = "create" ]_vars

\* C13 witness: a provisioning run has started and its first batch is submitted.
C13_Witness ==
    \E c \in Callers :
        /\ run[c].op = "create"
        /\ run[c].sent = 1
        /\ run[c].confirmed = <<>>
        /\ status = "creating"
        /\ creationLock

\* C14 as stated: status closing is entered only from status active, and a
\* close() call made in status active with the gate clear (and connection and
\* wallet present) starts the teardown: it moves status to closing.
C14_CloseFromActive ==
    [][ /\ (status' = "closing" /\ status # "closing") => status = "active"
        /\ ( /\ status = "active"
             /\ ~creationLock
             /\ RequiredPresent("close")
             /\ lastCall'.op = "close" ) => ~CallEndsEarly ]_vars

\* A step that leaves everything but status as it is: no call ends, no run
\* moves, no computation settles, no parameter changes.
OnlyStatusMayChange ==
    UNCHANGED <<costs, accounts, connection, wallet, breakProgramId, parallelization,
                creationLock, calculationCounter, calcs, run, lastCall>>

\* C15: deactivate() while the gate is held changes nothing; while the gate is
\* clear it sets status to inactive whatever the status is, and changes nothing
\* but status (gate, costs, pool config and everything else stay).
C15_Deactivate ==
    [][ /\ deactivate => /\ OnlyStatusMayChange
                         /\ status' = IF creationLock THEN status ELSE "inactive"
        /\ OnlyStatusMayChange => status' = IF creationLock THEN status ELSE "inactive" ]_vars

\* deactivate() has acted on an active pool: inactive with the accounts still held.
C15_Witness ==
    /\ status = "inactive"
    /\ accounts.defined
    /\ ~creationLock
    /\ lastCall = Ended("create", "returned", "none")

\* Cost known and no pool config held.
Ready == costs.defined /\ ~accounts.defined

\* C16 as stated: whenever status is inactive, the cost is known and no pool
\* config is held.
C16_InactiveMeansReady == status = "inactive" => Ready

\* C16 as the code has it: status initializing never holds a pool config, a
\* known cost is never forgotten, and status becomes inactive in four ways
\* only.  A cost computation that succeeds in status initializing and a create
\* run that fails both leave the cost known and no pool config held;
\* deactivate() with the gate clear and the end of a close run set status to
\* inactive and leave costs and pool config as they were, known or not, held
\* or not.
C16_InactiveOfCode ==
    /\ [](status = "initializing" => ~accounts.defined)
    /\ [][costs.defined => costs'.defined]_vars
    /\ [][ (status' = "inactive" /\ status # "inactive") =>
              \/ /\ OnlyStatusMayChange
                 /\ ~creationLock
              \/ \E c \in Callers : /\ RunEnds(c)
                                    /\ run[c].op = "close"
                                    /\ UNCHANGED <<costs, accounts>>
              \/ \E c \in Callers : /\ RunEndsFatally(c)
                                    /\ run[c].op = "create"
                                    /\ Ready'
              \/ /\ status = "initializing"
                 /\ \E k \in calcs : CalcReturns(k) /\ k.savedCounter = calculationCounter
                 /\ Ready' ]_vars

\* A failed create run has left status inactive with the cost known and no
\* pool config, where a second create may start.
C16_Witness ==
    /\ status = "inactive"
    /\ Ready
    /\ ~creationLock
    /\ lastCall = Ended("create", "returned", "fatal")

\* C17: a successful cost computation of the current generation stores the
\* costs whatever the status is, and changes status only when it is
\* initializing (to inactive); any other status is left as it is.
C17_StatusAfterCosts ==
    [][ \A k \in calcs :
           (CalcReturns(k) /\ k.savedCounter = calculationCounter) =>
               /\ costs'.defined
               /\ costs'.parallelization = k.parallelization
               /\ status' = IF status = "initializing" THEN "inactive" ELSE status ]_vars

\* The computation for the new parallelization succeeded during a create run:
\* the costs are the new ones, not those the run started with, and status is
\* still creating.
C17_Witness ==
    /\ status = "creating"
    /\ costs.defined
    /\ costs.parallelization = parallelization
    /\ \E c \in Callers : run[c].op = "create" /\ run[c].costs # costs

\* C18: within one create run the batch being submitted is always the one right
\* after the confirmed ones; a step of the run either submits the same batch
\* again, or confirms it and first submits the next one, or ends the run; the
\* confirmed batches are only ever added to; and when a batch fails fatally the
\* run is over, nothing is submitted any more (no later batch, no transaction
\* undoing the confirmed ones) and the call has failed.
C18_BatchOrder ==
    /\ [](\A c \in Callers : run[c].op = "create" =>
             run[c].accountIndex = BATCH_SIZE * Len(run[c].confirmed))
    /\ [][ \A c \in Callers : (run[c].op = "create" /\ run'[c] # run[c]) =>
              /\ \/ RunEnds(c)
                 \/ /\ run'[c].accountIndex = run[c].accountIndex
                    /\ run'[c].confirmed = run[c].confirmed
                    /\ run'[c].tx = run[c].tx
                 \/ /\ run'[c].accountIndex = run[c].accountIndex + BATCH_SIZE
                    /\ run'[c].confirmed = Append(run[c].confirmed, run[c].tx)
                    /\ run'[c].sent = 1
              /\ RunEndsFatally(c) =>
                    /\ InFlight' = {}
                    /\ ~accounts'.defined
                    /\ status' = "inactive"
                    /\ lastCall' = Ended("create", "returned", "fatal") ]_vars

\* C18 witness: two batches confirmed, the last submission of the third in flight.
C18_Witness ==
    \E c \in Callers :
        /\ run[c].op = "create"
        /\ run[c].accountIndex = 2 * BATCH_SIZE
        /\ Len(run[c].confirmed) = 2
        /\ run[c].sent = MaxRetries

\* C19 as stated: whenever a create run is provisioning, the costs it funds the
\* accounts with were computed for the parallelization the run sizes the pool
\* with.
C19_CostsMatchPool ==
    \A c \in Callers : run[c].op = "create" =>
        /\ run[c].costs.defined
        /\ run[c].costs.parallelization = run[c].parallelization

\* C20: status is creating or closing only while the gate is held by a create
\* or close run in flight; a status left by the effect or by the end of the run
\* is never one of the two.
C20_TransientHeld ==
    /\ [](status \in {"creating", "closing"} =>
             /\ creationLock
             /\ \E c \in Callers :
                    run[c].op = IF status = "creating" THEN "create" ELSE "close")
    /\ [][ \A c \in Callers : RunEnds(c) =>
              (~creationLock' /\ status' \notin {"creating", "closing"}) ]_vars

\* A close run is in flight: status closing, the gate held.
C20_Witness ==
    /\ status = "closing"
    /\ creationLock
    /\ \E c \in Callers : run[c].op = "close" /\ run[c].phase = "send"

=============================================================================
